---- MODULE Spec2Model ----
(***************************************************************************)
(* Model of stac_publisher/publisher.py: the Publisher polls a document    *)
(* index for documents with status "new", splits them at a cutoff time,    *)
(* publishes one message per identifier that is old and not young, and     *)
(* marks the published identifiers "queued".                               *)
(*                                                                         *)
(* Time is counted in ticks, TicksPerSec ticks to the second, so that the  *)
(* seconds-resolution formatting of the cutoff (strftime) is visible.      *)
(* A dict is a sequence of entries with distinct keys, in insertion order. *)
(*                                                                         *)
(* The index and the queue are outside publisher.py. The model takes them  *)
(* as follows:                                                             *)
(*  - a query returns every document that matches it, in any order;        *)
(*  - the range filter compares mod_time with the instant that the         *)
(*    formatted cutoff denotes;                                            *)
(*  - the field hit[ID_KEY] that get_messages reads and the field          *)
(*    properties.ID_KEY that update_subs matches hold the same value, the  *)
(*    document's identifier; several documents may carry one identifier;   *)
(*  - a bulk update that raises has changed no document;                   *)
(*  - entering and leaving the producer's with block opens and closes the  *)
(*    connection.                                                          *)
(***************************************************************************)
EXTENDS Integers, Sequences, FiniteSets, TLC

\* ---------------------------------------------------------------- bounds
NDocs == 2          \* documents in the index
TicksPerSec == 2    \* clock resolution below one second
MaxTicks == 1       \* times the clock advances
MaxCycles == 2      \* invocations of the program by its scheduler
MaxExt == 1         \* writes to the index by other actors
MaxDict == 2        \* entries of a dict given to filter_messages on its own
MaxHits == 3        \* hits given to get_messages on its own
MaxCalls == 2       \* calls of update_subs on its own
MaxRuns == 2        \* executions of the program started by independent schedulers

\* --------------------------------------------------------- configuration
CUTOFF == 1         \* conf["CUTOFF"], the age of the cutoff, here in ticks

NowInit == CUTOFF + 1        \* clock value of the initial state
MaxTime == NowInit + MaxTicks

Docs == 1..NDocs
Procs == {1, 2}     \* Publisher processes (each runs Publisher().run())
Ids == {"a", "b"}   \* values of the ID_KEY field
Statuses == {"new", "queued", "other"}
FilterIds == {"a", "b", "c"}   \* identifiers in the dicts given to filter_messages on its own

VARIABLES
    docs,            \* the index: doc -> [id, mod_time, status, description_path]
    now,             \* datetime.now()
    extn,            \* number of writes by other actors so far
    pc,              \* per process: position in run
    cutoff,          \* per process: local cutoff of run
    old_messages,    \* per process: local old_messages of run (dict)
    young_messages,  \* per process: local young_messages of run (dict)
    messages,        \* per process: local messages of run (list)
    idx,             \* per process: position of the for loop of publish_messages
    sinkOpen,        \* per process: the producer's connection is open
    sent,            \* the queue: every message published, tagged with its cycle
    cyc,             \* per process: number of the cycle it runs (0: none)
    oldDocs,         \* per process, history: the index when the "lte" query ran
    outcomes,        \* history: how each cycle started so far ended
    fin,             \* the arguments of a call of filter_messages on its own
    fout,            \* that call's result, once it has returned
    hin,             \* the hits of a call of get_messages on its own
    hout,            \* that call's result, once it has returned
    uin,             \* the messages of calls of update_subs on their own
    uout,            \* the number of these calls, the index before the first
                     \* and after the first
    overlap          \* an execution has started while another was running

vars == <<docs, now, extn, pc, cutoff, old_messages, young_messages, messages,
          idx, sinkOpen, sent, cyc, oldDocs, outcomes, fin, fout, hin, hout, uin, uout,
          overlap>>

locals == <<cutoff, old_messages, young_messages, messages, idx>>
ftest == <<fin, fout, hin, hout, uin, uout>>

\* ------------------------------------------------------------ helpers
Range(s) == {s[i] : i \in 1..Len(s)}

\* keys of a dict
Keys(d) == {d[i].uri : i \in 1..Len(d)}

\* all orders in which the index may return the documents of S
HitOrders(S) ==
    {h \in [1..Cardinality(S) -> S] : \A i, j \in 1..Cardinality(S) : h[i] = h[j] => i = j}

\* cutoff.strftime("%Y-%m-%dT%H:%M:%S"): the instant with its sub-second part dropped
strftime(t) == t - (t % TicksPerSec)

\* faulty variant of Compare: "lte" taken as strictly before
Compare_strict(operator, mod_time, bound) ==
    IF operator = "lte" THEN mod_time < bound ELSE mod_time > bound

\* the range filter on mod_time
Compare(operator, mod_time, bound) ==
    IF operator = "lte" THEN mod_time <= bound ELSE mod_time > bound

\* faulty variant of search: the status filter is lost
search_any_status(ds) == Docs

\* self.search: documents with status "new"
search(ds) == {d \in Docs : ds[d].status = "new"}

\* self.search.filter("range", mod_time={operator: cutoff.strftime(...)})
query(ds, operator, cut) ==
    {d \in search(ds) : Compare(operator, ds[d].mod_time, strftime(cut))}

\* the for loop of get_messages over the hits
RECURSIVE CollectHits(_, _)
CollectHits(hits, msgs) ==
    IF hits = <<>> THEN msgs
    ELSE LET hit == Head(hits)
             sur_id == hit.id
         IN  CollectHits(Tail(hits),
                 IF sur_id \notin Keys(msgs)
                 THEN Append(msgs, [uri |-> sur_id,
                                    description_path |-> hit.description_path])
                 ELSE msgs)

\* faulty variant of get_messages: every hit gets an entry
get_messages_every_hit(hits) ==
    [i \in DOMAIN hits |-> [uri |-> hits[i].id, description_path |-> hits[i].description_path]]

\* faulty variant of get_messages: a later hit overwrites the entry of its
\* identifier
RECURSIVE CollectOverwriting(_, _)
CollectOverwriting(hits, msgs) ==
    IF hits = <<>> THEN msgs
    ELSE LET hit == Head(hits)
             entry == [uri |-> hit.id, description_path |-> hit.description_path]
         IN  CollectOverwriting(Tail(hits),
                 IF hit.id \notin Keys(msgs) THEN Append(msgs, entry)
                 ELSE [i \in DOMAIN msgs |-> IF msgs[i].uri = hit.id THEN entry ELSE msgs[i]])

get_messages_overwriting(hits) == CollectOverwriting(hits, <<>>)

\* get_messages, for the hits in the order the index returned them
get_messages(hits) == CollectHits(hits, <<>>)

\* faulty variant of filter_messages: the young set is ignored
filter_messages_all(old, young) == old

\* filter_messages
filter_messages(old, young) ==
    SelectSeq(old, LAMBDA old_message : old_message.uri \notin Keys(young))

\* faulty variant of UpdateMatches: the query has no terms filter
UpdateMatches_all(ds, ids) == Docs

\* the documents the update query of update_subs matches
UpdateMatches(ds, ids) == {d \in Docs : ds[d].id \in ids}

\* faulty variant of update_by_query: the script sets nothing
update_by_query_nothing(ds, ids) == ds

\* faulty variant of update_by_query: the script moves a matching document that
\* is already queued back to new
update_by_query_toggling(ds, ids) ==
    [d \in Docs |-> IF d \in UpdateMatches(ds, ids)
                    THEN [ds[d] EXCEPT !.status = IF @ = "queued" THEN "new" ELSE "queued"]
                    ELSE ds[d]]

\* update_query.execute(): the script sets status on every matching document
update_by_query(ds, ids) ==
    [d \in Docs |-> IF d \in UpdateMatches(ds, ids)
                    THEN [ds[d] EXCEPT !.status = "queued"]
                    ELSE ds[d]]

NoMessages == <<>>

\* the dicts of at most MaxDict entries that get_messages can build
Dicts ==
    {m \in UNION {[1..n -> [uri : FilterIds, description_path : Docs]] : n \in 0..MaxDict} :
        \A i, j \in DOMAIN m : m[i].uri = m[j].uri => i = j}

\* ------------------------------------------------------------ initial state
DocRecords(d, statuses) ==
    [id : Ids, mod_time : 0..NowInit, status : statuses, description_path : {d}]

\* the indexes of the initial states: document d has description_path d, and
\* the first document has the first identifier (the identifiers are
\* interchangeable)
Indexes(statuses) ==
    {ds \in [Docs -> UNION {DocRecords(d, statuses) : d \in Docs}] :
        /\ \A d \in Docs : ds[d].description_path = d
        /\ ds[1].id = "a"}

InitLocals ==
    /\ pc = [p \in Procs |-> "idle"]
    /\ cutoff = [p \in Procs |-> 0]
    /\ old_messages = [p \in Procs |-> NoMessages]
    /\ young_messages = [p \in Procs |-> NoMessages]
    /\ messages = [p \in Procs |-> NoMessages]
    /\ idx = [p \in Procs |-> 0]
    /\ sinkOpen = [p \in Procs |-> FALSE]
    /\ cyc = [p \in Procs |-> 0]
    /\ oldDocs = [p \in Procs |-> <<>>]

InitWith(statuses) ==
    /\ docs \in Indexes(statuses)
    /\ now = NowInit
    /\ extn = 0
    /\ InitLocals
    /\ sent = <<>>
    /\ outcomes = <<>>
    /\ fin = [old |-> NoMessages, young |-> NoMessages]
    /\ fout = [done |-> FALSE, result |-> NoMessages]
    /\ hin = <<>>
    /\ hout = [done |-> FALSE, result |-> NoMessages]
    /\ uin = NoMessages
    /\ uout = [calls |-> 0, before |-> <<>>, once |-> <<>>]
    /\ overlap = FALSE

\* every document is as the upstream writer indexed it: status "new"
Init == InitWith({"new"})

\* documents of any status
InitSeq == InitWith(Statuses)

\* ------------------------------------------------------------ run
SetOutcome(p, o) == outcomes' = [outcomes EXCEPT ![cyc[p]] = o]

\* cutoff = datetime.now() - timedelta(minutes=CUTOFF)
Start(p) ==
    /\ pc[p] = "idle"
    /\ cutoff' = [cutoff EXCEPT ![p] = now - CUTOFF]
    /\ cyc' = [cyc EXCEPT ![p] = Len(outcomes) + 1]
    /\ outcomes' = Append(outcomes, "running")
    /\ pc' = [pc EXCEPT ![p] = "q_old"]
    /\ overlap' = (overlap \/ \E q \in Procs \ {p} : pc[q] # "idle")
    /\ UNCHANGED <<docs, now, extn, old_messages, young_messages, messages, idx,
                   sinkOpen, sent, oldDocs, ftest>>

\* old_messages = self.get_messages("lte", cutoff)
QueryOld(p) ==
    /\ pc[p] = "q_old"
    /\ \E hits \in HitOrders(query(docs, "lte", cutoff[p])) :
          old_messages' = [old_messages EXCEPT
                              ![p] = get_messages([i \in DOMAIN hits |-> docs[hits[i]]])]
    /\ oldDocs' = [oldDocs EXCEPT ![p] = docs]
    /\ pc' = [pc EXCEPT ![p] = "q_young"]
    /\ UNCHANGED <<docs, now, extn, cutoff, young_messages, messages, idx,
                   sinkOpen, sent, cyc, outcomes, ftest, overlap>>

\* faulty variant of QueryYoung: the cutoff is computed again for the second
\* query
QueryYoung_recomputed(p) ==
    /\ pc[p] = "q_young"
    /\ \E hits \in HitOrders(query(docs, "gt", now - CUTOFF)) :
          young_messages' = [young_messages EXCEPT
                              ![p] = get_messages([i \in DOMAIN hits |-> docs[hits[i]]])]
    /\ pc' = [pc EXCEPT ![p] = "filter"]
    /\ UNCHANGED <<docs, now, extn, cutoff, old_messages, messages, idx,
                   sinkOpen, sent, cyc, oldDocs, outcomes, ftest, overlap>>

\* faulty variant of QueryYoung: the second query repeats the operator of the first
QueryYoung_lte(p) ==
    /\ pc[p] = "q_young"
    /\ \E hits \in HitOrders(query(docs, "lte", cutoff[p])) :
          young_messages' = [young_messages EXCEPT
                              ![p] = get_messages([i \in DOMAIN hits |-> docs[hits[i]]])]
    /\ pc' = [pc EXCEPT ![p] = "filter"]
    /\ UNCHANGED <<docs, now, extn, cutoff, old_messages, messages, idx,
                   sinkOpen, sent, cyc, oldDocs, outcomes, ftest, overlap>>

\* young_messages = self.get_messages("gt", cutoff)
QueryYoung(p) ==
    /\ pc[p] = "q_young"
    /\ \E hits \in HitOrders(query(docs, "gt", cutoff[p])) :
          young_messages' = [young_messages EXCEPT
                              ![p] = get_messages([i \in DOMAIN hits |-> docs[hits[i]]])]
    /\ pc' = [pc EXCEPT ![p] = "filter"]
    /\ UNCHANGED <<docs, now, extn, cutoff, old_messages, messages, idx,
                   sinkOpen, sent, cyc, oldDocs, outcomes, ftest, overlap>>

\* faulty variant of QueryFail: the error is swallowed and run goes on with the
\* results it has
QueryFail_continues(p) ==
    /\ pc[p] \in {"q_old", "q_young"}
    /\ SetOutcome(p, "query_error")
    /\ pc' = [pc EXCEPT ![p] = "filter"]
    /\ UNCHANGED <<docs, now, extn, locals, sinkOpen, sent, cyc, oldDocs, ftest, overlap>>

\* query.execute() raises in either call of get_messages
QueryFail(p) ==
    /\ pc[p] \in {"q_old", "q_young"}
    /\ SetOutcome(p, "query_error")
    /\ pc' = [pc EXCEPT ![p] = "failed"]
    /\ UNCHANGED <<docs, now, extn, locals, sinkOpen, sent, cyc, oldDocs, ftest, overlap>>

\* faulty variant of Filter: run marks before it publishes
Filter_then_mark(p) ==
    /\ pc[p] = "filter"
    /\ messages' = [messages EXCEPT
                       ![p] = filter_messages(old_messages[p], young_messages[p])]
    /\ pc' = [pc EXCEPT ![p] = "update"]
    /\ UNCHANGED <<docs, now, extn, cutoff, old_messages, young_messages, idx,
                   sinkOpen, sent, cyc, oldDocs, outcomes, ftest, overlap>>

\* faulty variant of Filter: the identifiers that earlier executions have
\* published are remembered and left out
Filter_remembering(p) ==
    /\ pc[p] = "filter"
    /\ messages' = [messages EXCEPT
                       ![p] = SelectSeq(filter_messages(old_messages[p], young_messages[p]),
                                        LAMBDA m : \A i \in 1..Len(sent) : sent[i].uri # m.uri)]
    /\ pc' = [pc EXCEPT ![p] = "open"]
    /\ UNCHANGED <<docs, now, extn, cutoff, old_messages, young_messages, idx,
                   sinkOpen, sent, cyc, oldDocs, outcomes, ftest, overlap>>

\* messages = self.filter_messages(old_messages, young_messages)
Filter(p) ==
    /\ pc[p] = "filter"
    /\ messages' = [messages EXCEPT
                       ![p] = filter_messages(old_messages[p], young_messages[p])]
    /\ pc' = [pc EXCEPT ![p] = "open"]
    /\ UNCHANGED <<docs, now, extn, cutoff, old_messages, young_messages, idx,
                   sinkOpen, sent, cyc, oldDocs, outcomes, ftest, overlap>>

\* with self.producer as producer: __enter__ opens the connection
ProducerEnter(p) == sinkOpen' = [sinkOpen EXCEPT ![p] = TRUE]

\* leaving the with block: __exit__ closes the connection
ProducerExit(p) == sinkOpen' = [sinkOpen EXCEPT ![p] = FALSE]

\* producer.publish(routing_key, message): the message is on the queue
ProducerPublish(p, message) ==
    sent' = Append(sent, [uri |-> message.uri,
                          description_path |-> message.description_path,
                          cyc |-> cyc[p]])

\* faulty variant of PublishOpen: with no message to publish, the connection is
\* not opened
PublishOpen_unless_empty(p) ==
    /\ pc[p] = "open"
    /\ IF messages[p] = NoMessages
       THEN /\ pc' = [pc EXCEPT ![p] = "update"]
            /\ UNCHANGED sinkOpen
       ELSE /\ pc' = [pc EXCEPT ![p] = "publish"]
            /\ ProducerEnter(p)
    /\ idx' = [idx EXCEPT ![p] = 1]
    /\ UNCHANGED <<docs, now, extn, cutoff, old_messages, young_messages, messages,
                   sent, cyc, oldDocs, outcomes, ftest, overlap>>

\* publish_messages: entering the with block
PublishOpen(p) ==
    /\ pc[p] = "open"
    /\ ProducerEnter(p)
    /\ idx' = [idx EXCEPT ![p] = 1]
    /\ pc' = [pc EXCEPT ![p] = "publish"]
    /\ UNCHANGED <<docs, now, extn, cutoff, old_messages, young_messages, messages,
                   sent, cyc, oldDocs, outcomes, ftest, overlap>>

\* publish_messages: __enter__ raises, the with block is not entered
PublishOpenFail(p) ==
    /\ pc[p] = "open"
    /\ SetOutcome(p, "publish_error")
    /\ pc' = [pc EXCEPT ![p] = "failed"]
    /\ UNCHANGED <<docs, now, extn, locals, sinkOpen, sent, cyc, oldDocs, ftest, overlap>>

\* publish_messages: one iteration of the for loop
PublishOne(p) ==
    /\ pc[p] = "publish"
    /\ idx[p] <= Len(messages[p])
    /\ ProducerPublish(p, messages[p][idx[p]])
    /\ idx' = [idx EXCEPT ![p] = idx[p] + 1]
    /\ UNCHANGED <<docs, now, extn, pc, cutoff, old_messages, young_messages,
                   messages, sinkOpen, cyc, oldDocs, outcomes, ftest, overlap>>

\* faulty variant of PublishFail: the error is caught and run goes on to
\* update_subs
PublishFail_then_marks(p) ==
    /\ pc[p] = "publish"
    /\ idx[p] <= Len(messages[p])
    /\ ProducerExit(p)
    /\ SetOutcome(p, "publish_error")
    /\ pc' = [pc EXCEPT ![p] = "update"]
    /\ UNCHANGED <<docs, now, extn, locals, sent, cyc, oldDocs, ftest, overlap>>

\* faulty variant of PublishFail: the connection is not closed when publish raises
PublishFail_leak(p) ==
    /\ pc[p] = "publish"
    /\ idx[p] <= Len(messages[p])
    /\ SetOutcome(p, "publish_error")
    /\ pc' = [pc EXCEPT ![p] = "failed"]
    /\ UNCHANGED <<docs, now, extn, locals, sinkOpen, sent, cyc, oldDocs, ftest, overlap>>

\* publish_messages: producer.publish raises inside the with block
PublishFail(p) ==
    /\ pc[p] = "publish"
    /\ idx[p] <= Len(messages[p])
    /\ ProducerExit(p)
    /\ SetOutcome(p, "publish_error")
    /\ pc' = [pc EXCEPT ![p] = "failed"]
    /\ UNCHANGED <<docs, now, extn, locals, sent, cyc, oldDocs, ftest, overlap>>

\* publish_messages: the for loop is over, the with block is left
PublishClose(p) ==
    /\ pc[p] = "publish"
    /\ idx[p] > Len(messages[p])
    /\ ProducerExit(p)
    /\ pc' = [pc EXCEPT ![p] = "update"]
    /\ UNCHANGED <<docs, now, extn, locals, sent, cyc, oldDocs, outcomes, ftest, overlap>>

\* faulty variant of UpdateIds: the list of identifiers is left empty
UpdateIds_none(msgs) == {}

\* update_subs: ids = [message["uri"] for message in messages]
UpdateIds(msgs) == {msgs[i].uri : i \in 1..Len(msgs)}

\* update_subs, then run returns
UpdateSubs(p) ==
    /\ pc[p] = "update"
    /\ docs' = update_by_query(docs, UpdateIds(messages[p]))
    /\ SetOutcome(p, "done")
    /\ pc' = [pc EXCEPT ![p] = "done"]
    /\ UNCHANGED <<now, extn, locals, sinkOpen, sent, cyc, oldDocs, ftest, overlap>>

\* faulty variant of UpdateFail: the update is applied before the error is raised
UpdateFail_applied(p) ==
    /\ pc[p] = "update"
    /\ docs' = update_by_query(docs, UpdateIds(messages[p]))
    /\ SetOutcome(p, "update_error")
    /\ pc' = [pc EXCEPT ![p] = "failed"]
    /\ UNCHANGED <<now, extn, locals, sinkOpen, sent, cyc, oldDocs, ftest, overlap>>

\* update_subs: update_query.execute() raises
UpdateFail(p) ==
    /\ pc[p] = "update"
    /\ SetOutcome(p, "update_error")
    /\ pc' = [pc EXCEPT ![p] = "failed"]
    /\ UNCHANGED <<docs, now, extn, locals, sinkOpen, sent, cyc, oldDocs, ftest, overlap>>

\* the process ends (normally or with the exception); the next invocation is a
\* new Publisher() with fresh locals
Exit(p) ==
    /\ pc[p] \in {"done", "failed"}
    /\ pc' = [pc EXCEPT ![p] = "idle"]
    /\ cutoff' = [cutoff EXCEPT ![p] = 0]
    /\ old_messages' = [old_messages EXCEPT ![p] = NoMessages]
    /\ young_messages' = [young_messages EXCEPT ![p] = NoMessages]
    /\ messages' = [messages EXCEPT ![p] = NoMessages]
    /\ idx' = [idx EXCEPT ![p] = 0]
    /\ cyc' = [cyc EXCEPT ![p] = 0]
    /\ oldDocs' = [oldDocs EXCEPT ![p] = <<>>]
    /\ UNCHANGED <<docs, now, extn, sinkOpen, sent, outcomes, ftest, overlap>>

\* ------------------------------------------------------------ environment
\* the clock advances
Tick ==
    /\ now < MaxTime
    /\ now' = now + 1
    /\ UNCHANGED <<docs, extn, locals, pc, sinkOpen, sent, cyc, oldDocs, outcomes, ftest, overlap>>

\* another actor rewrites a document: its mod_time becomes the current time
ExtModify(d) ==
    /\ extn < MaxExt
    /\ docs[d].mod_time < now
    /\ docs' = [docs EXCEPT ![d].mod_time = now]
    /\ extn' = extn + 1
    /\ UNCHANGED <<now, locals, pc, sinkOpen, sent, cyc, oldDocs, outcomes, ftest, overlap>>

\* another actor sets the status of a document
ExtSetStatus(d, s) ==
    /\ extn < MaxExt
    /\ docs[d].status # s
    /\ docs' = [docs EXCEPT ![d].status = s]
    /\ extn' = extn + 1
    /\ UNCHANGED <<now, locals, pc, sinkOpen, sent, cyc, oldDocs, outcomes, ftest, overlap>>

\* the program, run once: Publisher().run()
Main(p) ==
    /\ outcomes = <<>>
    /\ Start(p)

\* the program, run again by its scheduler
Scheduled(p) ==
    /\ \A q \in Procs : pc[q] = "idle"
    /\ Len(outcomes) < MaxCycles
    /\ Start(p)

Steps(p) ==
       QueryOld(p)
    \/ QueryYoung(p)
    \/ QueryFail(p)
    \/ Filter(p)
    \/ PublishOpen(p)
    \/ PublishOpenFail(p)
    \/ PublishOne(p)
    \/ PublishFail(p)
    \/ PublishClose(p)
    \/ UpdateSubs(p)
    \/ UpdateFail(p)
    \/ Exit(p)

Environment ==
    \/ Tick
    \/ \E d \in Docs : ExtModify(d)
    \/ \E d \in Docs, s \in Statuses : ExtSetStatus(d, s)

\* one execution of the program, other actors writing to the index at any point
Next ==
    \/ Main(1)
    \/ Steps(1)
    \/ Environment

Spec == Init /\ [][Next]_vars

\* successive executions of the program, one at a time, on an index nobody
\* else writes to
NextSeq ==
    \/ Scheduled(1)
    \/ Steps(1)
    \/ Tick

SpecSeq == InitSeq /\ [][NextSeq]_vars

\* the record of the executions that have ended is dropped (the queue and the
\* outcomes are history, which no execution reads), so that the program can be
\* run without end
Forget ==
    /\ \A p \in Procs : pc[p] = "idle"
    /\ outcomes # <<>>
    /\ sent' = <<>>
    /\ outcomes' = <<>>
    /\ UNCHANGED <<docs, now, extn, locals, pc, sinkOpen, cyc, oldDocs, ftest, overlap>>

\* the program run again and again on an index nobody else writes to
NextLive ==
    \/ Main(1)
    \/ Steps(1)
    \/ Tick
    \/ Forget

\* the scheduler keeps running the program and the clock keeps advancing
\* (weak fairness); a step that can fail does not fail for ever (strong
\* fairness of the step's success)
Fairness ==
    /\ WF_vars(Tick)
    /\ WF_vars(Main(1))
    /\ WF_vars(Forget)
    /\ WF_vars(Filter(1))
    /\ WF_vars(PublishClose(1))
    /\ WF_vars(Exit(1))
    /\ SF_vars(QueryOld(1))
    /\ SF_vars(QueryYoung(1))
    /\ SF_vars(PublishOpen(1))
    /\ SF_vars(UpdateSubs(1))
    /\ \A k \in Docs : SF_vars(PublishOne(1) /\ idx[1] = k)

SpecLive == Init /\ [][NextLive]_vars /\ Fairness

\* the program started by schedulers that do not wait for one another: an
\* execution can start while another is running
Concurrent(p) ==
    /\ Len(outcomes) < MaxRuns
    /\ Start(p)

NextConc == \E p \in Procs : Concurrent(p) \/ Steps(p)

SpecConc == Init /\ [][NextConc]_vars

\* filter_messages on its own, on any two dicts
InitFilter ==
    /\ docs = [d \in Docs |-> [id |-> "a", mod_time |-> 0, status |-> "new",
                                description_path |-> d]]
    /\ now = NowInit
    /\ extn = 0
    /\ InitLocals
    /\ sent = <<>>
    /\ outcomes = <<>>
    /\ fin \in [old : Dicts, young : Dicts]
    /\ fout = [done |-> FALSE, result |-> NoMessages]
    /\ hin = <<>>
    /\ hout = [done |-> FALSE, result |-> NoMessages]
    /\ uin = NoMessages
    /\ uout = [calls |-> 0, before |-> <<>>, once |-> <<>>]
    /\ overlap = FALSE

CallFilter ==
    /\ ~fout.done
    /\ fout' = [done |-> TRUE, result |-> filter_messages(fin.old, fin.young)]
    /\ UNCHANGED <<docs, now, extn, locals, pc, sinkOpen, sent, cyc, oldDocs,
                   outcomes, fin, hin, hout, uin, uout, overlap>>

NextFilter == CallFilter

SpecFilter == InitFilter /\ [][NextFilter]_vars

\* the hits a query can return: documents that are new, any identifiers
Hits == [id : Ids, mod_time : {0}, status : {"new"}, description_path : Docs]

\* get_messages on its own, on any sequence of at most MaxHits hits
InitGet ==
    /\ docs = [d \in Docs |-> [id |-> "a", mod_time |-> 0, status |-> "new",
                                description_path |-> d]]
    /\ now = NowInit
    /\ extn = 0
    /\ InitLocals
    /\ sent = <<>>
    /\ outcomes = <<>>
    /\ fin = [old |-> NoMessages, young |-> NoMessages]
    /\ fout = [done |-> FALSE, result |-> NoMessages]
    /\ hin \in UNION {[1..n -> Hits] : n \in 0..MaxHits}
    /\ hout = [done |-> FALSE, result |-> NoMessages]
    /\ uin = NoMessages
    /\ uout = [calls |-> 0, before |-> <<>>, once |-> <<>>]
    /\ overlap = FALSE

CallGet ==
    /\ ~hout.done
    /\ hout' = [done |-> TRUE, result |-> get_messages(hin)]
    /\ UNCHANGED <<docs, now, extn, locals, pc, sinkOpen, sent, cyc, oldDocs,
                   outcomes, fin, fout, hin, uin, uout, overlap>>

NextGet == CallGet

SpecGet == InitGet /\ [][NextGet]_vars

\* update_subs on its own, called up to MaxCalls times with the same messages, on
\* any index
InitUpdate ==
    /\ docs \in {ds \in Indexes(Statuses) : \A d \in Docs : ds[d].mod_time = 0}
    /\ now = NowInit
    /\ extn = 0
    /\ InitLocals
    /\ sent = <<>>
    /\ outcomes = <<>>
    /\ fin = [old |-> NoMessages, young |-> NoMessages]
    /\ fout = [done |-> FALSE, result |-> NoMessages]
    /\ hin = <<>>
    /\ hout = [done |-> FALSE, result |-> NoMessages]
    /\ uin \in Dicts
    /\ uout = [calls |-> 0, before |-> docs, once |-> docs]
    /\ overlap = FALSE

CallUpdate ==
    /\ uout.calls < MaxCalls
    /\ docs' = update_by_query(docs, UpdateIds(uin))
    /\ uout' = [calls |-> uout.calls + 1,
                before |-> uout.before,
                once |-> IF uout.calls = 0 THEN docs' ELSE uout.once]
    /\ UNCHANGED <<now, extn, locals, pc, sinkOpen, sent, cyc, oldDocs,
                   outcomes, fin, fout, hin, hout, uin, overlap>>

NextUpdate == CallUpdate

SpecUpdate == InitUpdate /\ [][NextUpdate]_vars

\* ------------------------------------------------------------ properties
\* the messages cycle c has published so far, in order
SentIn(c) == SelectSeq(sent, LAMBDA m : m.cyc = c)

\* the identifiers cycle c has published so far
UrisSentIn(c) == {sent[i].uri : i \in {j \in 1..Len(sent) : sent[j].cyc = c}}

\* the documents that were new and not modified after the cutoff in index ds
Stable(ds, cut) == {d \in Docs : ds[d].status = "new" /\ ds[d].mod_time <= cut}

\* C1: every message a cycle publishes carries the identifier of a document
\* that had status new and mod_time <= cutoff when the "lte" query ran, and
\* that identifier is not among those the "gt" query returned; so a document
\* that is in both results is not published in that cycle.
C1_PublishedOldNotYoung ==
    \A p \in Procs : \A uri \in UrisSentIn(cyc[p]) :
        /\ \E d \in Stable(oldDocs[p], cutoff[p]) : oldDocs[p][d].id = uri
        /\ uri \notin Keys(young_messages[p])

\* a cycle has published, and has left out a document that was modified
\* between its two queries and so is in both results
C1_Witness ==
    \E p \in Procs :
        /\ pc[p] = "update"
        /\ UrisSentIn(cyc[p]) # {}
        /\ \E d \in Stable(oldDocs[p], strftime(cutoff[p])) :
              /\ docs[d].mod_time > cutoff[p]
              /\ docs[d].id \in Keys(old_messages[p]) \cap Keys(young_messages[p])
              /\ docs[d].id \notin UrisSentIn(cyc[p])

\* a message of the queue as the Publisher built it
Untag(m) == [uri |-> m.uri, description_path |-> m.description_path]

\* the whole batch of process p is on the queue
BatchSent(p) ==
    LET s == SentIn(cyc[p])
    IN  /\ Len(s) = Len(messages[p])
        /\ \A i \in 1..Len(s) : Untag(s[i]) = messages[p][i]

\* the step is one of process p that writes to the index
Marks(p) == pc[p] = "update" /\ docs' # docs /\ extn' = extn

\* C2: marking never happens before publishing. A step of a cycle that sets a
\* status finds every message of the batch on the queue and sets the status of
\* documents whose identifier the cycle has published, no others; and when
\* update_subs fails, the batch is on the queue already.
C2_PublishBeforeMark ==
    [][\A p \in Procs :
          /\ Marks(p) =>
                /\ BatchSent(p)
                /\ \A d \in Docs : docs'[d] # docs[d] =>
                      /\ docs'[d].status = "queued"
                      /\ docs[d].id \in UrisSentIn(cyc[p])
          /\ (pc[p] = "update" /\ pc'[p] = "failed") => BatchSent(p)]_vars

\* a cycle has published two messages and then marked their documents
C2_Witness ==
    \E p \in Procs :
        /\ pc[p] = "done"
        /\ Len(SentIn(cyc[p])) = 2
        /\ \A d \in Docs : docs[d].status = "queued"

\* C3: with cycles one at a time on an index nobody else writes to, no
\* identifier is published twice in one cycle, and an identifier that a cycle
\* published and marked (the cycle completed) is published by no later cycle.
C3_NeverReEmitted ==
    \A i, j \in 1..Len(sent) :
        (i < j /\ sent[i].uri = sent[j].uri) =>
            /\ sent[i].cyc < sent[j].cyc
            /\ outcomes[sent[i].cyc] # "done"

\* two cycles have completed, each having published, the second one a document
\* that the first left alone
C3_Witness ==
    /\ Len(outcomes) >= 2
    /\ outcomes[1] = "done"
    /\ outcomes[2] = "done"
    /\ UrisSentIn(1) # {}
    /\ UrisSentIn(2) # {}

\* the step of process p that runs the query with this operator
Queries(p, operator) ==
    IF operator = "lte" THEN pc[p] = "q_old" /\ pc'[p] = "q_young"
    ELSE pc[p] = "q_young" /\ pc'[p] = "filter"

\* the candidate set the query step of process p returns
Candidates(p, operator) ==
    IF operator = "lte" THEN old_messages'[p] ELSE young_messages'[p]

\* every candidate is built from a document that is new and whose mod_time
\* compares as asked with the bound
BuiltFromNew(p, operator, bound) ==
    \A m \in Range(Candidates(p, operator)) :
        \E d \in Docs :
            /\ docs[d].status = "new"
            /\ Compare(operator, docs[d].mod_time, bound)
            /\ m = [uri |-> docs[d].id, description_path |-> docs[d].description_path]

\* C4 as claimed: for both operators, get_messages returns only candidates built
\* from documents whose status is new and whose mod_time satisfies the
\* comparison with the cutoff.
C4_Claimed ==
    [][\A p \in Procs : \A operator \in {"lte", "gt"} :
          Queries(p, operator) => BuiltFromNew(p, operator, cutoff[p])]_vars

\* C4 as amended: for both operators, get_messages returns only candidates built
\* from documents whose status is new and whose mod_time satisfies the
\* comparison with the cutoff cut down to the whole second, which is the value
\* the query carries; a document that is not new is in no candidate set.
C4_SelectorGating ==
    [][\A p \in Procs : \A operator \in {"lte", "gt"} :
          Queries(p, operator) =>
              /\ BuiltFromNew(p, operator, strftime(cutoff[p]))
              /\ \A d \in Docs : docs[d].status # "new" =>
                    [uri |-> docs[d].id, description_path |-> docs[d].description_path]
                        \notin Range(Candidates(p, operator))]_vars

\* both queries have run on an index that holds a document that is not new,
\* and have returned a candidate, none with the identifier of that document
C4_Witness ==
    \E p \in Procs :
        /\ pc[p] = "filter"
        /\ Keys(old_messages[p]) \cup Keys(young_messages[p]) # {}
        /\ \E d \in Docs :
              /\ docs[d].status # "new"
              /\ oldDocs[p][d].status # "new"
              /\ docs[d].id \notin Keys(old_messages[p]) \cup Keys(young_messages[p])

\* C5: for disjoint identifier sets A and B and any set C, filter_messages of an
\* old set with identifiers A \cup C and a young set with identifiers B \cup C
\* returns exactly the messages of A: each message of the old set whose
\* identifier is not in the young set once, and nothing else.
C5_FilterIsDifference ==
    fout.done =>
        LET C == Keys(fin.old) \cap Keys(fin.young)
            A == Keys(fin.old) \ C
            B == Keys(fin.young) \ C
        IN  /\ Keys(fout.result) = A
            /\ Keys(fout.result) \cap (B \cup C) = {}
            /\ Len(fout.result) = Cardinality(A)
            /\ Range(fout.result) \subseteq Range(fin.old)

\* filter_messages has returned for sets A, B and C that are not empty
C5_Witness ==
    /\ fout.done
    /\ Keys(fin.old) \cap Keys(fin.young) # {}
    /\ Keys(fin.old) \ Keys(fin.young) # {}
    /\ Keys(fin.young) \ Keys(fin.old) # {}
    /\ fout.result # <<>>

\* no two documents of index ds have the same identifier
UniqueIds(ds) == \A d, e \in Docs : ds[d].id = ds[e].id => d = e

\* the message get_messages builds from document d of index ds
MessageOf(ds, d) == [uri |-> ds[d].id, description_path |-> ds[d].description_path]

\* a completed cycle of process p has published one message per document of
\* `chosen` and has set the status of these documents, no other, to queued
PublishedAndMarked(p, chosen) ==
    /\ Len(SentIn(cyc[p])) = Cardinality(chosen)
    /\ {Untag(m) : m \in Range(SentIn(cyc[p]))} = {MessageOf(oldDocs[p], d) : d \in chosen}
    /\ \A d \in Docs :
          docs[d] = IF d \in chosen THEN [oldDocs[p][d] EXCEPT !.status = "queued"]
                    ELSE oldDocs[p][d]

\* C6 as claimed: in a cycle that completes, on an index with unique identifiers
\* that nobody else writes to, the messages published are one per document that
\* is new with mod_time <= cutoff, with uri the identifier and description_path
\* the payload reference; afterwards those documents are queued and every other
\* document is as it was.
C6_Claimed ==
    \A p \in Procs :
        (pc[p] = "done" /\ UniqueIds(oldDocs[p])) =>
            PublishedAndMarked(p, Stable(oldDocs[p], cutoff[p]))

\* C6 as amended: the same, for the documents that are new with mod_time at or
\* before the cutoff cut down to the whole second.
C6_CycleResult ==
    \A p \in Procs :
        (pc[p] = "done" /\ UniqueIds(oldDocs[p])) =>
            PublishedAndMarked(p, Stable(oldDocs[p], strftime(cutoff[p])))

\* the scenario of the claim: of two new documents, the one at or before the
\* cutoff is published and queued, the one after it is still new
C6_Witness ==
    \E p \in Procs :
        /\ pc[p] = "done"
        /\ UniqueIds(oldDocs[p])
        /\ \E a, b \in Docs :
              /\ oldDocs[p][a].status = "new" /\ oldDocs[p][a].mod_time <= strftime(cutoff[p])
              /\ oldDocs[p][b].status = "new" /\ oldDocs[p][b].mod_time > cutoff[p]
              /\ UrisSentIn(cyc[p]) = {docs[a].id}
              /\ docs[a].status = "queued"
              /\ docs[b].status = "new"

\* C7 as claimed: whenever update_subs changes the status of a document, the
\* status of that document just before was new.
C7_Claimed ==
    [][\A p \in Procs : Marks(p) =>
          \A d \in Docs : docs'[d].status # docs[d].status => docs[d].status = "new"]_vars

\* C8: on an index nobody else writes to, a failure of the bulk update changes
\* no document, so that every document of the published batch is still new; and
\* the next cycle that completes publishes every identifier of that batch again.
C8_UpdateFailureRepublishes ==
    /\ \A p \in Procs :
          (pc[p] = "failed" /\ outcomes[cyc[p]] = "update_error") =>
              /\ docs = oldDocs[p]
              /\ \A d \in Docs : docs[d].id \in UrisSentIn(cyc[p]) /\ oldDocs[p][d].status = "new"
                    => docs[d].status = "new"
    /\ \A c, e \in 1..Len(outcomes) :
          (/\ c < e
           /\ outcomes[c] = "update_error"
           /\ outcomes[e] = "done"
           /\ \A k \in (c + 1)..(e - 1) : outcomes[k] # "done")
          => UrisSentIn(c) \subseteq UrisSentIn(e)

\* a cycle published and failed in the bulk update, and the next cycle completed
C8_Witness ==
    /\ Len(outcomes) >= 2
    /\ outcomes[1] = "update_error"
    /\ outcomes[2] = "done"
    /\ UrisSentIn(1) # {}
    /\ UrisSentIn(2) = UrisSentIn(1)

\* the identifiers on the queue
UrisSent == {sent[i].uri : i \in 1..Len(sent)}

\* C9: with the program run again and again on an index nobody else writes to,
\* and no step failing for ever, every document that is new is eventually
\* published; a cycle publishes no identifier of a new document that is
\* modified after its cutoff, and that document is published by a later cycle.
C9_AtLeastOnce ==
    /\ [](\A p \in Procs : \A d \in Docs :
            (pc[p] \in {"filter", "open", "publish", "update", "done", "failed"}
             /\ docs[d].status = "new" /\ docs[d].mod_time > cutoff[p])
            => docs[d].id \notin UrisSentIn(cyc[p]))
    /\ \A d \in Docs : (docs[d].status = "new") ~> (docs[d].id \in UrisSent)

\* a document that was after the cutoff at the initial clock has been published
\* once the clock has advanced
C9_Witness ==
    /\ now > NowInit
    /\ \E d \in Docs :
          /\ docs[d].mod_time > NowInit - CUTOFF
          /\ docs[d].id \in UrisSent
          /\ \A e \in Docs : docs[e].id = docs[d].id => e = d

\* C10: the sink is open exactly while publish_messages is inside its with
\* block: it is opened on entering it, before any message of the batch, and is
\* closed when publish_messages has returned or raised; every message is
\* published on an open sink.
C10_SinkScoped ==
    [][/\ \A p \in Procs :
             /\ sinkOpen'[p] <=> pc'[p] = "publish"
             /\ (sinkOpen'[p] /\ ~sinkOpen[p]) =>
                    (pc[p] = "open" /\ UrisSentIn(cyc[p]) = {})
       /\ sent' # sent =>
             \E p \in Procs : /\ sent'[Len(sent')].cyc = cyc[p]
                              /\ sinkOpen[p]
                              /\ sinkOpen'[p]]_vars

\* publishing failed in mid-batch, after a message, and the sink is closed
C10_Witness ==
    \E p \in Procs :
        /\ pc[p] = "failed"
        /\ outcomes[cyc[p]] = "publish_error"
        /\ UrisSentIn(cyc[p]) # {}
        /\ Len(SentIn(cyc[p])) < Len(messages[p])
        /\ ~sinkOpen[p]

\* the positions of the hits with identifier id
HitsOf(hits, id) == {i \in 1..Len(hits) : hits[i].id = id}

Min(S) == CHOOSE x \in S : \A y \in S : x <= y
Max(S) == CHOOSE x \in S : \A y \in S : x >= y

\* the candidate set has one entry for each identifier among the hits, and the
\* entry of an identifier has the description_path of the hit that `pick`
\* chooses among the hits of that identifier
OneEntryPerId(hits, result, pick(_)) ==
    /\ Keys(result) = {hits[i].id : i \in 1..Len(hits)}
    /\ Len(result) = Cardinality(Keys(result))
    /\ \A k \in 1..Len(result) :
          result[k].description_path =
              hits[pick(HitsOf(hits, result[k].uri))].description_path

\* C11 as claimed: with several hits of one identifier, the candidate set has one
\* entry for the identifier, with the description_path of the last of these hits.
C11_Claimed == hout.done => OneEntryPerId(hin, hout.result, Max)

\* C11 as amended: with several hits of one identifier, the candidate set has
\* one entry for the identifier, with the description_path of the first of
\* these hits; the later ones are ignored.
C11_FirstSeenWins == hout.done => OneEntryPerId(hin, hout.result, Min)

\* get_messages has returned for hits of which two have one identifier and
\* different description_paths
C11_Witness ==
    /\ hout.done
    /\ \E i, j \in 1..Len(hin) :
          /\ i < j
          /\ hin[i].id = hin[j].id
          /\ hin[i].description_path # hin[j].description_path

\* C12: after update_subs has been called twice with the same messages, every
\* document has the status it had after the first call.
C12_UpdateIdempotent ==
    uout.calls >= 2 => \A d \in Docs : docs[d].status = uout.once[d].status

\* update_subs has been called twice and the first call changed a status
C12_Witness ==
    /\ uout.calls = 2
    /\ \E d \in Docs : uout.once[d].status # uout.before[d].status

\* a step of process p from one position of run to another
Step(p, from, to) == pc[p] = from /\ pc'[p] = to

\* process p returns from get_messages or from filter_messages
Selects(p) ==
    \/ Step(p, "q_old", "q_young")
    \/ Step(p, "q_young", "filter")
    \/ Step(p, "filter", "open")

\* C13: update_subs changes nothing but the status of the documents whose
\* identifier is in the set it is given: the other documents, the other fields
\* and the sink are as before; get_messages and filter_messages change neither
\* the index nor the sink.
C13_Frame ==
    [][\A p \in Procs :
          /\ Step(p, "update", "done") =>
                /\ \A d \in Docs :
                      /\ docs[d].id \notin UpdateIds(messages[p]) => docs'[d] = docs[d]
                      /\ docs'[d].id = docs[d].id
                      /\ docs'[d].mod_time = docs[d].mod_time
                      /\ docs'[d].description_path = docs[d].description_path
                /\ sent' = sent
                /\ sinkOpen' = sinkOpen
          /\ Selects(p) => docs' = docs /\ sent' = sent /\ sinkOpen' = sinkOpen]_vars

\* update_subs has returned: it has set a document to queued and there is a
\* document whose identifier was not in the set
C13_Witness ==
    \E p \in Procs :
        /\ pc[p] = "done"
        /\ \E d \in Docs : docs[d].id \notin UpdateIds(messages[p])
        /\ \E d \in Docs :
              /\ docs[d].id \in UpdateIds(messages[p])
              /\ docs[d].status = "queued"
              /\ oldDocs[p][d].status = "new"

\* the cycle of process p has ended with the exception of a selection query
QueryFailed(p) == cyc[p] > 0 /\ outcomes[cyc[p]] = "query_error"

\* C14: when either selection query fails, the cycle ends there, failed, before
\* any side effect: up to the failure and after it the cycle has published no
\* message and has not opened the sink, the failing step and the steps before
\* it change no document, and run does not go on with a partial or empty result.
C14_QueryFailureAborts ==
    /\ [](\A p \in Procs :
            /\ QueryFailed(p) => pc[p] = "failed"
            /\ (pc[p] \in {"q_old", "q_young"} \/ QueryFailed(p)) =>
                  /\ ~sinkOpen[p]
                  /\ SentIn(cyc[p]) = <<>>)
    /\ [][\A p \in Procs :
            /\ (pc[p] \in {"q_old", "q_young"} /\ QueryFailed(p)') =>
                  /\ pc'[p] = "failed"
                  /\ docs' = docs /\ sent' = sent /\ sinkOpen' = sinkOpen
            /\ ((pc[p] \in {"q_old", "q_young"} \/ QueryFailed(p)) /\ pc'[p] # pc[p]) =>
                  docs' = docs /\ sent' = sent /\ sinkOpen' = sinkOpen]_vars

\* the second query of a cycle has failed after the first had returned a
\* candidate
C14_Witness ==
    \E p \in Procs :
        /\ QueryFailed(p)
        /\ pc[p] = "failed"
        /\ old_messages[p] # NoMessages

\* the cycle of process p has ended with the exception of the sink
PublishFailed(p) == cyc[p] > 0 /\ outcomes[cyc[p]] = "publish_error"

\* C15: when publishing message k of the batch fails, the cycle ends there,
\* failed: the queue has messages 1..k-1 of the batch and no other message of the
\* cycle, the update has not been issued, and every document is as the lte query
\* found it, those of the batch still new.
C15_PublishFailureStops ==
    /\ [](\A p \in Procs : PublishFailed(p) =>
            /\ pc[p] = "failed"
            /\ idx[p] <= Len(messages[p]) \/ messages[p] = NoMessages
            /\ Len(SentIn(cyc[p])) = IF idx[p] = 0 THEN 0 ELSE idx[p] - 1
            /\ \A i \in 1..Len(SentIn(cyc[p])) : Untag(SentIn(cyc[p])[i]) = messages[p][i]
            /\ docs = oldDocs[p]
            /\ \A d \in Stable(oldDocs[p], strftime(cutoff[p])) :
                  docs[d].id \in UpdateIds(messages[p]) => docs[d].status = "new")
    /\ [][\A p \in Procs :
            /\ (pc[p] = "publish" /\ PublishFailed(p)') =>
                  pc'[p] = "failed" /\ sent' = sent /\ docs' = docs
            /\ (PublishFailed(p) /\ pc'[p] # pc[p]) =>
                  pc'[p] = "idle" /\ sent' = sent /\ docs' = docs]_vars

\* publishing the second message of a batch of two has failed
C15_Witness ==
    \E p \in Procs :
        /\ PublishFailed(p)
        /\ Len(messages[p]) = 2
        /\ idx[p] = 2
        /\ Len(SentIn(cyc[p])) = 1

\* no execution has ended with an exception
NoFailure == \A c \in 1..Len(outcomes) : outcomes[c] \in {"running", "done"}

\* two messages with one identifier are on the queue
Duplicates == \E i, j \in 1..Len(sent) : i < j /\ sent[i].uri = sent[j].uri

\* C16: nothing keeps two cycles from running at once, and then both can select
\* one new document and publish its identifier twice; as long as no cycle has
\* started while another was running, and none has failed, no identifier is
\* on the queue twice.
C16_DuplicatesNeedOverlap == (~overlap /\ NoFailure) => ~Duplicates

\* two cycles that ran at once have completed without a failure; both found
\* document d new at or before the cutoff, and each has published its identifier
C16_Witness ==
    /\ overlap
    /\ NoFailure
    /\ \A p \in Procs : pc[p] = "done"
    /\ \E d \in Docs :
          /\ \A p \in Procs :
                /\ d \in Stable(oldDocs[p], strftime(cutoff[p]))
                /\ docs[d].id \in UrisSentIn(cyc[p])
          /\ \E i, j \in 1..Len(sent) :
                /\ i < j
                /\ sent[i].uri = docs[d].id
                /\ sent[j].uri = docs[d].id
                /\ sent[i].cyc # sent[j].cyc

\* the order of the calls of run: from each position, the one position that
\* follows it when the call returns
RunOrder ==
    {<<"idle", "q_old">>, <<"q_old", "q_young">>, <<"q_young", "filter">>,
     <<"filter", "open">>, <<"open", "publish">>, <<"publish", "update">>,
     <<"update", "done">>, <<"done", "idle">>, <<"failed", "idle">>}

\* the positions at which a call of run can raise
CanRaise == {"q_old", "q_young", "open", "publish", "update"}

\* the identifiers of the new documents that are at or before (lte) or after
\* (gt) the second of the cutoff
NewIds(operator, cut) ==
    {docs[d].id : d \in {e \in Docs :
        /\ docs[e].status = "new"
        /\ IF operator = "lte" THEN docs[e].mod_time <= strftime(cut)
           ELSE docs[e].mod_time > strftime(cut)}}

\* C17: run is one pass with no retry. The cutoff is computed once, when run
\* starts, and both queries use it; the calls follow in the order lte query, gt
\* query, filter, publish, mark, none twice, and an exception ends the pass;
\* update_subs gets the identifiers of the messages publish_messages got.
C17_SinglePass ==
    [][\A p \in Procs :
          /\ pc'[p] # pc[p] =>
                \/ <<pc[p], pc'[p]>> \in RunOrder
                \/ pc[p] \in CanRaise /\ pc'[p] = "failed"
          /\ Step(p, "idle", "q_old") => cutoff'[p] = now - CUTOFF
          /\ (pc[p] # "idle" /\ pc'[p] # "idle") =>
                cutoff'[p] = cutoff[p] /\ cyc'[p] = cyc[p]
          /\ Queries(p, "lte") => Keys(old_messages'[p]) = NewIds("lte", cutoff[p])
          /\ Queries(p, "gt") => Keys(young_messages'[p]) = NewIds("gt", cutoff[p])
          /\ pc[p] \in {"publish", "update"} => messages'[p] = messages[p]
          /\ Step(p, "update", "done") =>
                /\ UrisSentIn(cyc[p]) = UpdateIds(messages[p])
                /\ \A d \in Docs :
                      docs'[d] # docs[d] <=> /\ docs[d].id \in UrisSentIn(cyc[p])
                                             /\ docs[d].status # "queued"]_vars

\* a cycle has completed and has published; the clock has moved on since run
\* computed the cutoff, and the gt query has returned a candidate
C17_Witness ==
    \E p \in Procs :
        /\ pc[p] = "done"
        /\ SentIn(cyc[p]) # <<>>
        /\ young_messages[p] # NoMessages
        /\ now - CUTOFF # cutoff[p]

\* the identifiers a cycle selects from index ds with cutoff cut: those of a new
\* document at or before the second of the cutoff, less those of a new document
\* after it
SelectedFrom(ds, cut) ==
    {ds[d].id : d \in {e \in Docs : ds[e].status = "new" /\ ds[e].mod_time <= strftime(cut)}}
    \ {ds[d].id : d \in {e \in Docs : ds[e].status = "new" /\ ds[e].mod_time > strftime(cut)}}

\* C18: a cycle carries nothing over from the cycles before it. What a cycle
\* selects, publishes and marks is given by the index it reads and its cutoff
\* alone, whether it is the first cycle or follows cycles that failed.
C18_NoCarriedState ==
    \A p \in Procs :
        /\ pc[p] \in {"open", "publish", "update", "done"} =>
              UpdateIds(messages[p]) = SelectedFrom(oldDocs[p], cutoff[p])
        /\ pc[p] \in {"update", "done"} =>
              UrisSentIn(cyc[p]) = SelectedFrom(oldDocs[p], cutoff[p])
        /\ pc[p] = "done" =>
              \A d \in Docs :
                  docs[d] = IF oldDocs[p][d].id \in SelectedFrom(oldDocs[p], cutoff[p])
                            THEN [oldDocs[p][d] EXCEPT !.status = "queued"]
                            ELSE oldDocs[p][d]

\* a cycle has completed after a cycle that published and then failed, and has
\* published too
C18_Witness ==
    \E p \in Procs :
        /\ pc[p] = "done"
        /\ cyc[p] >= 2
        /\ outcomes[cyc[p] - 1] \in {"publish_error", "update_error"}
        /\ SentIn(cyc[p] - 1) # <<>>
        /\ SentIn(cyc[p]) # <<>>

\* the messages of cycle c on the queue that have identifier id
SentWith(c, id) == {i \in 1..Len(sent) : sent[i].cyc = c /\ sent[i].uri = id}

\* C19: when several documents have one identifier, a cycle publishes at most
\* one message for it, and none when the gt query returned a document with the
\* identifier; and when update_subs returns, every document with a published
\* identifier is queued, the lte query's hit or not.
C19_SharedIdentifier ==
    /\ [](\A p \in Procs : cyc[p] > 0 =>
            \A id \in Ids :
                /\ Cardinality(SentWith(cyc[p], id)) <= 1
                /\ (pc[p] \in {"open", "publish", "update", "done"}
                        /\ id \in Keys(young_messages[p])) =>
                      SentWith(cyc[p], id) = {})
    /\ [][\A p \in Procs : Step(p, "update", "done") =>
            \A d \in Docs :
                docs[d].id \in UrisSentIn(cyc[p]) => docs'[d].status = "queued"]_vars

\* two documents have one identifier; a cycle has published one message for it
\* and has completed; both documents are queued, one of them the lte query's hit
\* and the other not
C19_Witness ==
    \E p \in Procs :
        /\ pc[p] = "done"
        /\ \E d, e \in Docs :
              /\ d # e
              /\ docs[d].id = docs[e].id
              /\ Cardinality(SentWith(cyc[p], docs[d].id)) = 1
              /\ d \in Stable(oldDocs[p], strftime(cutoff[p]))
              /\ e \notin Stable(oldDocs[p], strftime(cutoff[p]))
              /\ oldDocs[p][e].status # "queued"
              /\ docs[d].status = "queued"
              /\ docs[e].status = "queued"

\* the filter of the cycle of process p has left nothing
EmptyBatch(p) ==
    pc[p] \in {"open", "publish", "update", "done"} /\ messages[p] = NoMessages

\* C20: a cycle whose filter leaves no message goes through the same calls as
\* any other: it opens the sink and closes it, publishing nothing, and issues
\* the update with no identifier, which changes no document; the empty batch
\* raises no error of its own.
C20_EmptyBatch ==
    /\ [](\A p \in Procs : EmptyBatch(p) =>
            /\ SentIn(cyc[p]) = <<>>
            /\ pc[p] = "done" => outcomes[cyc[p]] = "done")
    /\ [][\A p \in Procs : (EmptyBatch(p) /\ pc'[p] # pc[p]) =>
            /\ sent' = sent
            /\ docs' = docs
            /\ pc[p] = "open" =>
                  \/ pc'[p] = "publish" /\ ~sinkOpen[p] /\ sinkOpen'[p]
                  \/ pc'[p] = "failed" /\ ~sinkOpen'[p]
            /\ pc[p] = "publish" =>
                  pc'[p] = "update" /\ sinkOpen[p] /\ ~sinkOpen'[p]
            /\ pc[p] = "update" =>
                  /\ UpdateIds(messages[p]) = {}
                  /\ pc'[p] \in {"done", "failed"}
                  /\ ~sinkOpen'[p]]_vars

\* a cycle whose lte query returned a candidate and whose filter left none has
\* completed
C20_Witness ==
    \E p \in Procs :
        /\ pc[p] = "done"
        /\ messages[p] = NoMessages
        /\ old_messages[p] # NoMessages
        /\ outcomes[cyc[p]] = "done"

====
